---- MODULE Spec2Model ----
(***************************************************************************)
(* Model of ZookeeperEpochStore (logdevice/common/ZookeeperEpochStore.cpp): *)
(* the read-modify-write engine, the provisioning multi-op, the creation   *)
(* of the root znodes, the reaction to a quorum change and the shutdown    *)
(* flag.  The Zookeeper ensemble is one tree of versioned znodes; every    *)
(* call issued on a client is answered by one completion step.             *)
(*                                                                         *)
(* Model of ServerHealthMonitor (logdevice/server/ServerHealthMonitor.cpp): *)
(* the report methods, the executor that runs their closures, the monitor  *)
(* loop with its state timer, and shutdown().  Time points are ages in     *)
(* half periods of sleep_period.  Spec and FairSpec run the epoch store,   *)
(* HmSpec and HmFairSpec run the health monitor.                           *)
(***************************************************************************)
EXTENDS Integers, Sequences, FiniteSets, TLC

\* ------------------------------------------------------------------ bounds
NumReqs == 2
MaxEpoch == 2
MaxClients == 2
MaxCalls == 2

\* --------------------------------------------------------------- constants
ZNODE_VALUE_WRITE_LEN_MAX == 4096

Reqs == 1..NumReqs
Quorums == {"h1:2181,h2:2181", "h3:2181,h4:2181"}
NoConfig == "null"

\* return codes a Zookeeper completion can carry
ZkFailures == {"ZCONNECTIONLOSS", "ZCLOSING", "ZRUNTIMEINCONSISTENCY"}

\* sizes composeZnodeValue() may report
ComposeSizes == {-1, 1, ZNODE_VALUE_WRITE_LEN_MAX}

\* NextStep of ZookeeperEpochStoreRequest
PROVISION == "PROVISION"
MODIFY == "MODIFY"
STOP == "STOP"
FAILED == "FAILED"

NoValue == -1
NoCall == [op |-> "none"]
NoStatus == "none"

\* logid_t: LOGID_INVALID, and LOGID_MAX scaled down to the one log of the
\* model; the ids above LOGID_MAX are those of the metadata logs
LOGID_INVALID == 0
LOGID_MAX == 42
LogIds == {LOGID_INVALID, LOGID_MAX, LOGID_MAX + 1}

\* TailRecord: what isValid() and containOffsetWithinEpoch() return
TailRecords == [valid : BOOLEAN, offset_within_epoch : BOOLEAN]

\* ------------------------------------------------------------------- paths
\* rootPath(): the cluster's root, "/ld/c1"; "/" is the empty sequence
rootPath == <<"ld", "c1">>

\* znodePathForLog(): rootPath() + "/" + logid
znodePathForLog == Append(rootPath, "42")

znodeName == "epoch_metadata"
znodeNameDataLog == "lce_data_log"
znodeNameMetaDataLog == "lce_metadata_log"

\* fs::path::parent_path()
parent_path(path) == SubSeq(path, 1, Len(path) - 1)

\* getZnodePath() of the three request kinds
getZnodePath(k) ==
  IF k = "EpochMetaData" THEN Append(znodePathForLog, znodeName)
  ELSE Append(znodePathForLog, znodeNameDataLog)

AllPaths ==
  { SubSeq(rootPath, 1, n) : n \in 1..Len(rootPath) } \cup
  { znodePathForLog,
    Append(znodePathForLog, znodeName),
    Append(znodePathForLog, znodeNameDataLog),
    Append(znodePathForLog, znodeNameMetaDataLog) }

\* ---------------------------------------------------------------- statuses
\* ZookeeperClientBase::toStatus()
toStatus(rc) ==
  CASE rc = "ZOK" -> "OK"
    [] rc = "ZNONODE" -> "NOTFOUND"
    [] rc = "ZNODEEXISTS" -> "EXISTS"
    [] rc = "ZBADVERSION" -> "VERSION_MISMATCH"
    [] rc = "ZCLOSING" -> "SHUTDOWN"
    [] rc = "ZCONNECTIONLOSS" -> "CONNFAILED"
    [] OTHER -> "UNKNOWN"

\* the return codes a completion can carry
ZkCodes ==
  {"ZOK", "ZNONODE", "ZNODEEXISTS", "ZBADVERSION", "ZINVALIDSTATE",
   "ZBADARGUMENTS"} \cup ZkFailures

\* what zkclient->state() can report: the state of the session
SessionStates ==
  {"ZOO_CONNECTED_STATE", "ZOO_EXPIRED_SESSION_STATE",
   "ZOO_AUTH_FAILED_STATE"}

\* the functions of the store that translate a return code: the
\* completions of getData, setData and multiOp, and zkOpStatus()
CompletionFunctions ==
  {"onGetZnodeComplete", "zkSetCF", "zkLogMultiCreateCF", "multiOpCF"}

StatusFunctions == CompletionFunctions \cup {"zkOpStatus"}

\* ZookeeperEpochStore::zkOpStatus(), zstate being zkclient->state()
zkOpStatus(rc, zstate) ==
  IF rc = "ZBADARGUMENTS" THEN "INTERNAL"
  ELSE IF rc = "ZINVALIDSTATE"
  THEN IF zstate = "ZOO_EXPIRED_SESSION_STATE" THEN "NOTCONN"
       ELSE IF zstate = "ZOO_AUTH_FAILED_STATE" THEN "ACCESS"
       ELSE "FAILED"
  ELSE toStatus(rc)

\* zkCfStatus() translating a znode that exists like a version mismatch
zkCfStatus_ExistsAgain(rc) ==
  IF rc = "ZRUNTIMEINCONSISTENCY" THEN "FAILED"
  ELSE LET status == toStatus(rc)
       IN IF status \in {"VERSION_MISMATCH", "EXISTS"} THEN "AGAIN"
          ELSE status

\* zkCfStatus() without the translation of a version mismatch
zkCfStatus_NoAgain(rc) ==
  IF rc = "ZRUNTIMEINCONSISTENCY" THEN "FAILED" ELSE toStatus(rc)

\* zkCfStatus()
zkCfStatus(rc) ==
  IF rc = "ZRUNTIMEINCONSISTENCY" THEN "FAILED"
  ELSE LET status == toStatus(rc)
       IN IF status = "VERSION_MISMATCH" THEN "AGAIN" ELSE status


\* --------------------------------------------- the request kinds' contract
\* the value "" of a znode created empty
EmptyValue == 0

\* ZookeeperEpochStoreRequest::onGotZnodeValue(): the next step and the
\* status the request leaves in err.  p is the epoch of a SetLastCleanEpoch
\* request and the updater's decision of an EpochMetaData request.
onGotZnodeValue(k, p, value) ==
  CASE k = "GetLastCleanEpoch" ->
         IF value = NoValue THEN [next |-> FAILED, err |-> "NOTFOUND"]
         ELSE [next |-> STOP, err |-> "OK"]
    [] k = "SetLastCleanEpoch" ->
         IF value = NoValue THEN [next |-> FAILED, err |-> "NOTFOUND"]
         ELSE IF p > value THEN [next |-> MODIFY, err |-> "OK"]
         ELSE [next |-> FAILED, err |-> "STALE"]
    [] OTHER ->
         IF p = "fail" THEN [next |-> FAILED, err |-> "FAILED"]
         ELSE IF value = NoValue THEN [next |-> PROVISION, err |-> "OK"]
         ELSE IF p = "stop" THEN [next |-> STOP, err |-> "UPTODATE"]
         ELSE [next |-> MODIFY, err |-> "OK"]

\* ZookeeperEpochStoreRequest::composeZnodeValue(): the value to write
composeZnodeValue(k, p, value) ==
  IF k = "SetLastCleanEpoch" THEN p
  ELSE IF value = NoValue THEN 1
  ELSE value + 1

Params(k) ==
  CASE k = "GetLastCleanEpoch" -> {0}
    [] k = "SetLastCleanEpoch" -> 1..MaxEpoch
    [] OTHER -> {"modify", "stop", "fail"}

Kinds == {"GetLastCleanEpoch", "SetLastCleanEpoch", "EpochMetaData"}

\* ------------------------------------------------- the Zookeeper ensemble
Absent == [value |-> EmptyValue, exists |-> FALSE, version |-> 0]

ZkExists(tree, path) == path = <<>> \/ tree[path].exists

\* getData(path): return code, value and stat
ZkGetData(tree, path) ==
  IF tree[path].exists
  THEN [rc |-> "ZOK", value |-> tree[path].value,
        version |-> tree[path].version]
  ELSE [rc |-> "ZNONODE", value |-> EmptyValue, version |-> 0]

\* setData(path, value, version): version -1 matches any stored version
ZkSetData(tree, path, value, version) ==
  IF ~tree[path].exists THEN [rc |-> "ZNONODE", tree |-> tree]
  ELSE IF version # -1 /\ version # tree[path].version
  THEN [rc |-> "ZBADVERSION", tree |-> tree]
  ELSE [rc |-> "ZOK",
        tree |-> [tree EXCEPT ![path] =
                    [exists |-> TRUE, value |-> value,
                     version |-> tree[path].version + 1]]]

\* the creates of a multi-op applied in order; the first failure ends it
RECURSIVE ZkCreates(_, _)
ZkCreates(tree, ops) ==
  IF ops = <<>> THEN [rc |-> "ZOK", tree |-> tree]
  ELSE LET op == Head(ops)
       IN IF ~ZkExists(tree, parent_path(op.path))
          THEN [rc |-> "ZNONODE", tree |-> tree]
          ELSE IF tree[op.path].exists
          THEN [rc |-> "ZNODEEXISTS", tree |-> tree]
          ELSE ZkCreates([tree EXCEPT ![op.path] =
                            [exists |-> TRUE, value |-> op.value,
                             version |-> 0]],
                         Tail(ops))

\* multiOp(ops): all of the creates or none of them
ZkMultiOp(tree, ops) ==
  LET res == ZkCreates(tree, ops)
  IN IF res.rc = "ZOK" THEN res ELSE [rc |-> res.rc, tree |-> tree]

\* ===================================================== ServerHealthMonitor
\* Model of ServerHealthMonitor (logdevice/server/ServerHealthMonitor.cpp).
\* Time is counted in half periods (sleep_period / 2); the monitor keeps no
\* absolute time, so every time point is kept as its age, now - t.

\* ------------------------------------------------------------------ bounds
NumWorkers == 2
MaxReports == 2
MaxQueue == 1
MaxFairReports == 1

\* ------------------------------------------------- constructor parameters
\* sleep_period: two half periods
SleepPeriod == 2
\* max_queue_stalls_avg, max_stalls_avg
MaxQueueStallsAvg == 2
MaxStallsAvg == 1
\* max_queue_stall_duration: the values a configuration may give it
MaxQueueStallDurations == {0, 2}
\* max_overloaded_worker_percentage as the fraction PctNum / PctDen
PctNum == 1
PctDen == 2

\* max_stalled_worker_percentage as the fraction StalledPctNum /
\* StalledPctDen: every worker has to be stalled
StalledPctNum == 1
StalledPctDen == 1

\* ------------------------------------ constants of ServerHealthMonitor.h
kPeriodRange == 2
kMaxLoopStall == 1
kMaxTimerValue == 6
kMultiplier == 2
kDecreaseRate == 2
kFuzzFactor == 1

Workers == 0..(NumWorkers - 1)

\* the durations and the worker indexes the reports carry
Durations == {0, 3}
Indexes == {-1} \cup Workers \cup {NumWorkers}

\* NodeState
HEALTHY == "HEALTHY"
OVERLOADED == "OVERLOADED"
UNHEALTHY == "UNHEALTHY"

\* ------------------------------------------------------------- TimeSeries
\* the oldest age a window of the evaluation reaches; what is older is
\* never read again
MaxAge == 2 * kPeriodRange

Ages == 0..MaxAge

NoSamples == [count |-> 0, sum |-> 0]

\* a TimeSeries: for every age the number and the sum of the values added
EmptySeries == [a \in Ages |-> NoSamples]

\* TimeSeries::addValue(tp, duration), the age of tp being age
AddValue(t, age, duration) ==
  IF age \in Ages
  THEN [t EXCEPT ![age] = [count |-> @.count + 1, sum |-> @.sum + duration]]
  ELSE t

\* the series one half period later
Older(t) == [a \in Ages |-> IF a = 0 THEN NoSamples ELSE t[a - 1]]

\* the ages of the time points in [now - p * half_period,
\* now - (p - 2) * half_period)
Window(p) == {a \in Ages : p - 2 < a /\ a <= p}

RECURSIVE SumOver(_, _, _)
SumOver(t, S, field) ==
  IF S = {} THEN 0
  ELSE LET a == CHOOSE x \in S : TRUE
       IN (IF field = "sum" THEN t[a].sum ELSE t[a].count) +
          SumOver(t, S \ {a}, field)

\* TimeSeries::sum(start, end) and TimeSeries::count(start, end) of window p
PeriodSum(t, p) == SumOver(t, Window(p), "sum")
PeriodCount(t, p) == SumOver(t, Window(p), "count")

\* the windows the evaluation looks at, in the order of the loop
Periods == 2..(2 * kPeriodRange)

\* -------------------------------------------------------- window evaluator
\* worker_queue_stalls_.capacity() and worker_stalls_.capacity(): the
\* vectors are reserved and assigned with num_workers elements
Capacity == NumWorkers

\* count >= percentage * capacity
AtLeastPercentage(count) == count * PctDen >= PctNum * Capacity

\* isStalled(): count_if(...) >= max_stalled_worker_percentage_ * capacity()
AtLeastStalledPercentage(count) ==
  count * StalledPctDen >= StalledPctNum * Capacity

\* the lambda of isOverloaded() evaluating period_sum / period_count
\* whenever the window holds a sample
DividesQueueSum_CountChecked(period_sum, period_count, max_duration) ==
  period_count > 0 /\ period_sum >= max_duration

\* the lambda of isOverloaded(): the left operand of &&, after which
\* period_sum / period_count is evaluated
DividesQueueSum(period_sum, period_count, max_duration) ==
  period_sum >= max_duration

\* the lambda of isOverloaded() on one series, from window p on: "true",
\* "false", or "undefined" when it divides by a count of 0
RECURSIVE QueueOverloaded(_, _, _)
QueueOverloaded(t, p, max_duration) ==
  IF p \notin Periods THEN "false"
  ELSE LET period_sum == PeriodSum(t, p)
           period_count == PeriodCount(t, p)
       IN IF DividesQueueSum(period_sum, period_count, max_duration)
          THEN IF period_count = 0 THEN "undefined"
               ELSE IF period_sum \div period_count >= MaxQueueStallsAvg
               THEN "true"
               ELSE QueueOverloaded(t, p + 1, max_duration)
          ELSE QueueOverloaded(t, p + 1, max_duration)

\* isOverloaded(): what the call can come to.  A division by a count of 0
\* is undefined: the lambda may give either answer or the process may die.
isOverloaded(worker_queue_stalls, max_duration) ==
  LET res == [w \in Workers |->
                QueueOverloaded(worker_queue_stalls[w], 2, max_duration)]
      sure == Cardinality({w \in Workers : res[w] = "true"})
      undefined == Cardinality({w \in Workers : res[w] = "undefined"})
  IN { [died |-> FALSE, overloaded |-> AtLeastPercentage(n)] :
         n \in sure..(sure + undefined) } \cup
     (IF undefined > 0 THEN {[died |-> TRUE, overloaded |-> FALSE]} ELSE {})

\* the lambda of isStalled() on one series, from window p on: whether the
\* worker is stalled and what it adds to critically_stalled_
RECURSIVE WorkerStalled(_, _)
WorkerStalled(t, p) ==
  IF p \notin Periods THEN [stalled |-> FALSE, critically |-> 0]
  ELSE LET period_sum == PeriodSum(t, p)
           period_count == PeriodCount(t, p)
       IN IF period_count > 0 /\
             period_sum \div period_count >= MaxStallsAvg
          THEN [stalled |-> TRUE,
                critically |->
                  IF period_sum \div period_count >= SleepPeriod
                  THEN 1 ELSE 0]
          ELSE WorkerStalled(t, p + 1)

RECURSIVE SumCritically(_, _)
SumCritically(res, W) ==
  IF W = {} THEN 0
  ELSE LET w == CHOOSE x \in W : TRUE
       IN res[w].critically + SumCritically(res, W \ {w})

\* isStalled(): the StallInfo it returns
isStalled(worker_stalls) ==
  LET res == [w \in Workers |-> WorkerStalled(worker_stalls[w], 2)]
  IN [critically_stalled_ |-> SumCritically(res, Workers),
      stalled_ |-> AtLeastStalledPercentage(
                     Cardinality({w \in Workers : res[w].stalled}))]

\* ------------------------------------------------------------- state timer
Min(a, b) == IF a < b THEN a ELSE b
Max(a, b) == IF a > b THEN a ELSE b

\* the longest time since the last feedback that still makes a difference
MaxElapsed == (kMaxTimerValue + kDecreaseRate - 1) \div kDecreaseRate

\* state_timer_ as the constructor makes it, its minimum being 0
StateTimer_MinZero(sleep_period) ==
  [min |-> 0, current |-> sleep_period, max |-> kMaxTimerValue, elapsed |-> 0]

\* state_timer_ as the constructor makes it: min and initial sleep_period,
\* max kMaxTimerValue
StateTimer(sleep_period) ==
  [min |-> sleep_period, current |-> sleep_period, max |-> kMaxTimerValue,
   elapsed |-> 0]

\* negativeFeedback(): current * multiplier, fuzzed, at most max
negativeFeedback(timer) ==
  { [timer EXCEPT !.current = Min(timer.max, v)] :
      v \in { timer.current * kMultiplier + f :
                f \in {-kFuzzFactor, 0, kFuzzFactor} } }

\* positiveFeedback(now): current decays by decrease_rate for the time since
\* the last feedback, not below min
positiveFeedback(timer) ==
  [timer EXCEPT !.current =
                  Min(timer.max,
                      Max(timer.min, @ - kDecreaseRate * timer.elapsed)),
                !.elapsed = 0]


\* ------------------------------------------------------------------- state
VARIABLES
  znodes,              \* the znode tree of the ensemble
  clients,             \* the clients the factory made: their quorum strings
  zkclient,            \* zkclient_: index of the current client
  shutting_down,       \* *shutting_down_
  create_root_znodes,  \* settings_->zk_create_root_znodes
  phase,               \* per request: where it is
  kind,                \* per request: its class
  param,               \* per request: epoch or updater decision
  call,                \* per request: the call in flight
  operations_,         \* per request: MultiOpState::operations_
  paths_to_create,     \* per request: CreateRootsState::paths_to_create_
  posted,              \* per request: statuses given to postCompletion()
  hist,                \* per request: what its handlers observed
  err,                 \* the calling thread's err
  rejected,            \* the entry points that returned -1
  \* ServerHealthMonitor
  max_queue_stall_duration,  \* max_queue_stall_duration_
  is_started,          \* startUp() was called
  shutdown_,           \* shutdown_
  shutdown_promise,    \* how often shutdown_promise_ was fulfilled
  sleeping,            \* a folly::futures::sleep(sleep_period_) is pending
  last_entry_time,     \* age of last_entry_time_
  executor,            \* the closures waiting on executor_, oldest first
  internal_info,       \* internal_info_
  state_timer,         \* state_timer_
  node_state,          \* node_state_
  overloaded_,         \* overloaded_
  stall_info_,         \* stall_info_
  last_tick,           \* what the last evaluation did
  reports,             \* the calls of the report methods so far
  died,                \* the process was killed
  \* the translation of return codes
  cf                   \* a completion function, its input and its status

storeVars == <<znodes, clients, zkclient, shutting_down, create_root_znodes>>
reqVars == <<phase, kind, param, call, operations_, paths_to_create, posted,
             hist>>
callerVars == <<err, rejected>>
emcVars == <<znodes, clients, zkclient, shutting_down, create_root_znodes,
             phase, kind, param, call, operations_, paths_to_create, posted,
             hist, err, rejected>>
hmVars == <<max_queue_stall_duration, is_started, shutdown_,
            shutdown_promise,
            sleeping, last_entry_time, executor, internal_info, state_timer,
            node_state, overloaded_, stall_info_, last_tick, reports, died>>
vars == <<znodes, clients, zkclient, shutting_down, create_root_znodes,
          phase, kind, param, call, operations_, paths_to_create, posted,
          hist, err, rejected,
          max_queue_stall_duration, is_started, shutdown_, shutdown_promise,
          sleeping, last_entry_time, executor, internal_info, state_timer,
          node_state, overloaded_, stall_info_, last_tick, reports, died,
          cf>>

\* no return code is being translated
NoCompletion ==
  [rc |-> "none", zstate |-> "none", fn |-> "none", st |-> NoStatus]

NoHist == [rc |-> "none", value |-> NoValue, version |-> -2,
           st |-> NoStatus, client |-> 0, used |-> {}, overwrote |-> <<>>,
           flag |-> FALSE, via |-> "none", retried |-> FALSE,
           arg |-> "none", owner |-> "none", destroyed |-> 0,
           composed |-> FALSE, size |-> 0]

EmptyTree == [p \in AllPaths |-> Absent]

Created(v) == [exists |-> TRUE, value |-> v, version |-> 0]

\* the trees a store can find at construction: nothing, some or all of the
\* root znodes, or a log subtree that was provisioned earlier
InitialTrees ==
  { EmptyTree,
    [p \in AllPaths |-> IF p = <<"ld">> THEN Created(EmptyValue)
                        ELSE Absent],
    [p \in AllPaths |-> IF Len(p) <= Len(rootPath) THEN Created(EmptyValue)
                        ELSE Absent],
    [p \in AllPaths |-> IF p = Append(znodePathForLog, znodeName)
                        THEN Created(1) ELSE Created(EmptyValue)] }

\* ServerHealthMonitor::ServerHealthMonitor()
HmConstructed(max_duration) ==
  /\ max_queue_stall_duration = max_duration
  /\ is_started = FALSE
  /\ shutdown_ = FALSE
  /\ shutdown_promise = 0
  /\ sleeping = FALSE
  /\ last_entry_time = 0
  /\ executor = <<>>
  /\ internal_info =
       [watchdog_delay_ |-> FALSE,
        total_stalled_workers |-> 0,
        health_monitor_delay_ |-> FALSE,
        worker_stalls_ |-> [w \in Workers |-> EmptySeries],
        worker_queue_stalls_ |-> [w \in Workers |-> EmptySeries]]
  /\ state_timer = StateTimer(SleepPeriod)
  /\ node_state = HEALTHY
  /\ overloaded_ = FALSE
  /\ stall_info_ = [critically_stalled_ |-> 0, stalled_ |-> FALSE]
  /\ last_tick = [negative_feedbacks |-> 0, state_indicator |-> 0]
  /\ reports = 0
  /\ died = FALSE

\* ZookeeperEpochStore::ZookeeperEpochStore() finding the tree tree
EmcConstructed(trees, settings) ==
  /\ znodes \in trees
  /\ clients = <<"h1:2181,h2:2181">>
  /\ zkclient = 1
  /\ shutting_down = FALSE
  /\ create_root_znodes \in settings
  /\ phase = [r \in Reqs |-> "idle"]
  /\ kind = [r \in Reqs |-> "none"]
  /\ param = [r \in Reqs |-> 0]
  /\ call = [r \in Reqs |-> NoCall]
  /\ operations_ = [r \in Reqs |-> <<>>]
  /\ paths_to_create = [r \in Reqs |-> <<>>]
  /\ posted = [r \in Reqs |-> <<>>]
  /\ hist = [r \in Reqs |-> NoHist]
  /\ err = "none"
  /\ rejected = {}

\* the epoch store after its construction, next to a health monitor that
\* is never started
Init ==
  /\ EmcConstructed(InitialTrees, BOOLEAN)
  /\ \E d \in MaxQueueStallDurations :
       /\ \A e \in MaxQueueStallDurations : e <= d
       /\ HmConstructed(d)
  /\ cf = NoCompletion

\* the health monitor after its construction, with any of the stall
\* durations, next to an epoch store that is never called
HmInit ==
  /\ EmcConstructed({EmptyTree}, {FALSE})
  /\ \E d \in MaxQueueStallDurations : HmConstructed(d)
  /\ cf = NoCompletion

\* a completion function about to translate a return code, in any state of
\* the session, next to a store and a monitor that are never called
CfInit ==
  /\ EmcConstructed({EmptyTree}, {FALSE})
  /\ \E d \in MaxQueueStallDurations :
       /\ \A e \in MaxQueueStallDurations : e <= d
       /\ HmConstructed(d)
  /\ cf \in [fn : StatusFunctions, rc : ZkCodes, zstate : SessionStates,
             st : {NoStatus}]


\* ------------------------------------------------------- pieces of handlers
\* the test at done: without the look at the shutdown flag
PostAtDone_DropShutdown(st, flag) == st # "SHUTDOWN"

\* the test that guards zrq->postCompletion(st) at done: in
\* onGetZnodeComplete()
PostAtDone(st, flag) == st # "SHUTDOWN" \/ ~flag

\* postRequestCompletion() dropping every completion of a store that is
\* being destroyed
ShouldPost_NeverOnShutdown(st, flag) == ~flag

\* postRequestCompletion() posting whatever the status
ShouldPost_Always(st, flag) == TRUE

\* the test that guards zrq->postCompletion(st) in postRequestCompletion()
ShouldPost(st, flag) == st # "SHUTDOWN" \/ ~flag

\* setData() with version -1, which matches any stored version
SetDataVersion_Any(stat) == -1

\* setData() with the version of a znode that was never written
SetDataVersion_Zero(stat) == 0

\* the version handed to setData(): the one the read returned
SetDataVersion(stat) == stat.version

\* the client the request started on, kept for all its calls
ClientForCall_Started(current, started) == started

\* the client a handler issues its call on: zkclient_.get() at that moment
ClientForCall(current, started) == current

\* multiOpCF() popping the path whatever the status of its create
RootCreated_Any(st) == TRUE

\* multiOpCF(): the create of a root znode counts as done
RootCreated(st) == st = "OK" \/ st = "EXISTS"

\* createRootZnodesCF() taking a root znode that exists for a failure
RootsFailed_NotOk(st) == st # "OK"

\* createRootZnodesCF(): the creation of the root znodes failed
RootsFailed(st) == st # "OK" /\ st # "EXISTS"

\* operations_ after it was handed to multiOp() with std::move: the vector
\* is left empty when multiOp() takes it over and intact when it copies
MovedFrom(ops) == {<<>>, ops}

\* the four creates provisionLogZnodes() adds
ProvisionOps(value) ==
  << [path |-> znodePathForLog, value |-> EmptyValue],
     [path |-> Append(znodePathForLog, znodeName), value |-> value],
     [path |-> Append(znodePathForLog, znodeNameDataLog),
      value |-> EmptyValue],
     [path |-> Append(znodePathForLog, znodeNameMetaDataLog),
      value |-> EmptyValue] >>

\* CreateRootsState::CreateRootsState(): root_path and its parents pushed
\* while walking up; the top of the stack is the last element
RECURSIVE EnumerateParents(_)
EnumerateParents(path) ==
  IF path = <<>> THEN <<>>
  ELSE <<path>> \o EnumerateParents(parent_path(path))

\* getNextPathToCreate() taking the path that was pushed first
getNextPathToCreate_Bottom(stack) == stack[1]

\* CreateRootsState::getNextPathToCreate()
getNextPathToCreate(stack) == stack[Len(stack)]

Pop(stack) == SubSeq(stack, 1, Len(stack) - 1)

GetDataCall(c, path) ==
  [op |-> "getData", client |-> c, path |-> path, value |-> NoValue,
   version |-> 0, ops |-> <<>>]

SetDataCall(c, path, value, version) ==
  [op |-> "setData", client |-> c, path |-> path, value |-> value,
   version |-> version, ops |-> <<>>]

MultiOpCall(c, ops) ==
  [op |-> "multiOp", client |-> c, path |-> <<>>, value |-> NoValue,
   version |-> 0, ops |-> ops]

\* the request is over: zrq->postCompletion(st) unless the status is
\* SHUTDOWN and the store is being destroyed
Finish(r, st, via, h, post) ==
  /\ phase' = [phase EXCEPT ![r] = "done"]
  /\ call' = [call EXCEPT ![r] = NoCall]
  /\ posted' = [posted EXCEPT ![r] = IF post THEN Append(@, st) ELSE @]
  /\ hist' = [hist EXCEPT ![r] =
                [h EXCEPT !.st = st, !.flag = shutting_down, !.via = via]]

\* ZookeeperEpochStore::postRequestCompletion()
PostRequestCompletion(r, rc, via, h) ==
  LET st == zkCfStatus(rc)
  IN Finish(r, st, via, h, ShouldPost(st, shutting_down))

\* MultiOpState::runMultiOp() on the deferred state of request r
RunMultiOp(r, ops, h) ==
  LET c == ClientForCall(zkclient, h.client)
  IN /\ call' = [call EXCEPT ![r] = MultiOpCall(c, ops)]
     /\ \E left \in MovedFrom(ops) :
          operations_' = [operations_ EXCEPT ![r] = left]
     /\ phase' = [phase EXCEPT ![r] = "multi"]
     /\ hist' = [hist EXCEPT ![r] = [h EXCEPT !.used = @ \cup {c}]]
     /\ UNCHANGED posted

\* ZookeeperEpochStore::provisionLogZnodes()
ProvisionLogZnodes(r, sequencer_znode_value, h) ==
  /\ RunMultiOp(r, ProvisionOps(sequencer_znode_value), h)
  /\ UNCHANGED paths_to_create

\* CreateRootsState::run(): one create of the top of the stack
Run(r, stack, h) ==
  LET c == ClientForCall(zkclient, h.client)
  IN /\ call' = [call EXCEPT ![r] =
                   MultiOpCall(c, << [path |-> getNextPathToCreate(stack),
                                      value |-> EmptyValue] >>)]
     /\ paths_to_create' = [paths_to_create EXCEPT ![r] = stack]
     /\ phase' = [phase EXCEPT ![r] = "roots"]
     /\ hist' = [hist EXCEPT ![r] = [h EXCEPT !.used = @ \cup {c}]]
     /\ UNCHANGED <<operations_, posted>>

\* the unique_ptr that holds the CreateRootsState keeping it after run()
Release_Kept(owner) == owner

\* std::unique_ptr<CreateRootsState>::release() after run(): the state
\* machine owns itself, its address being the data of the call in flight
Release(owner) == "closure"

\* a std::unique_ptr<CreateRootsState> goes out of scope: the state it
\* still holds is destroyed
ScopeExit(h) ==
  IF h.owner \in {"creator", "handler"}
  THEN [h EXCEPT !.owner = "none", !.destroyed = Min(@ + 1, 2)]
  ELSE h

\* ZookeeperEpochStore::createRootZnodes(): make_unique, run(), release()
CreateRootZnodes(r, h) ==
  Run(r, EnumerateParents(rootPath),
      ScopeExit([h EXCEPT !.owner = Release("creator")]))

\* ZookeeperEpochStore::createRootZnodesCF()
CreateRootZnodesCF(r, stack, rc, h) ==
  IF RootsFailed(zkCfStatus(rc))
  THEN /\ PostRequestCompletion(r, rc, "roots", h)
       /\ paths_to_create' = [paths_to_create EXCEPT ![r] = stack]
       /\ UNCHANGED operations_
  ELSE /\ RunMultiOp(r, operations_[r], [h EXCEPT !.retried = TRUE])
       /\ paths_to_create' = [paths_to_create EXCEPT ![r] = stack]

\* CreateRootsState::multiOpCF()
MultiOpCF(r, rc, h) ==
  LET st == zkCfStatus(rc)
      popped == Pop(paths_to_create[r])
      state == [h EXCEPT !.owner = "handler"]
  IN IF RootCreated(st)
     THEN IF popped # <<>>
          THEN Run(r, popped,
                   ScopeExit([state EXCEPT !.owner = Release(@)]))
          ELSE CreateRootZnodesCF(r, popped, rc, ScopeExit(state))
     ELSE CreateRootZnodesCF(r, paths_to_create[r], rc, ScopeExit(state))

\* zkLogMultiCreateCF() creating the root znodes whatever the setting
CreatesRoots_Always(st, zk_create_root_znodes) == st = "NOTFOUND"

\* zkLogMultiCreateCF(): the multi-op found no root znode and the setting
\* zk-create-root-znodes allows the store to create it
CreatesRoots(st, zk_create_root_znodes) ==
  st = "NOTFOUND" /\ zk_create_root_znodes

\* ZookeeperEpochStore::zkLogMultiCreateCF()
ZkLogMultiCreateCF(r, rc, h) ==
  IF CreatesRoots(zkCfStatus(rc), create_root_znodes)
  THEN CreateRootZnodes(r, h)
  ELSE /\ PostRequestCompletion(r, rc, "multi", h)
       /\ UNCHANGED <<operations_, paths_to_create>>

\* the switch on next_step ending the request on STOP only
EndsRequest_StopOnly(next_step) == next_step = STOP

\* the switch on next_step: STOP and FAILED take st from err and go to done
EndsRequest(next_step) == next_step = STOP \/ next_step = FAILED

\* the test of the size composeZnodeValue() reports letting a size pass
\* that fills the buffer
SizeRefused_NegativeOnly(znode_value_size) == znode_value_size < 0

\* the test of the size composeZnodeValue() reports, sizeof(znode_value)
\* being ZNODE_VALUE_WRITE_LEN_MAX
SizeRefused(znode_value_size) ==
  znode_value_size < 0 \/ znode_value_size >= ZNODE_VALUE_WRITE_LEN_MAX

\* zrq->composeZnodeValue() reported znode_value_size
Composed(h, znode_value_size) ==
  [h EXCEPT !.composed = TRUE, !.size = znode_value_size]

\* ZookeeperEpochStore::onGetZnodeComplete()
OnGetZnodeComplete(r, rc, value_from_zk, stat) ==
  LET st == zkCfStatus(rc)
      value_for_zrq == IF st = "NOTFOUND" THEN NoValue ELSE value_from_zk
      h == [hist[r] EXCEPT !.rc = rc, !.value = value_for_zrq,
                           !.version = stat.version]
  IN IF st # "OK" /\ st # "NOTFOUND"
     THEN /\ Finish(r, st, "get", h, PostAtDone(st, shutting_down))
          /\ UNCHANGED <<operations_, paths_to_create>>
     ELSE LET step == onGotZnodeValue(kind[r], param[r], value_for_zrq)
          IN IF EndsRequest(step.next)
             THEN /\ Finish(r, step.err, "get", h,
                            PostAtDone(step.err, shutting_down))
                  /\ UNCHANGED <<operations_, paths_to_create>>
             ELSE \E znode_value_size \in ComposeSizes :
                    IF SizeRefused(znode_value_size)
                    THEN /\ Finish(r, "INTERNAL", "get",
                                   Composed(h, znode_value_size),
                                   PostAtDone("INTERNAL", shutting_down))
                         /\ UNCHANGED <<operations_, paths_to_create>>
                    ELSE LET znode_value ==
                               composeZnodeValue(kind[r], param[r],
                                                 value_for_zrq)
                             hc == Composed(h, znode_value_size)
                         IN IF step.next = PROVISION
                            THEN ProvisionLogZnodes(r, znode_value, hc)
                            ELSE LET c == ClientForCall(zkclient, h.client)
                                 IN /\ call' = [call EXCEPT ![r] =
                                         SetDataCall(c, getZnodePath(kind[r]),
                                                     znode_value,
                                                     SetDataVersion(stat))]
                                    /\ phase' = [phase EXCEPT ![r] = "set"]
                                    /\ hist' = [hist EXCEPT ![r] =
                                         [hc EXCEPT !.used = @ \cup {c}]]
                                    /\ UNCHANGED <<operations_,
                                                   paths_to_create, posted>>


\* ----------------------------------------------------------------- actions
\* ZookeeperEpochStore::runRequest(): getData on the current client.
\* Requests are numbered in the order the callers submit them.
RunRequest(r, k, p, arg) ==
  /\ LET c == zkclient
     IN /\ call' = [call EXCEPT ![r] = GetDataCall(c, getZnodePath(k))]
        /\ hist' = [hist EXCEPT ![r].client = c, ![r].used = {c},
                                ![r].arg = arg]
  /\ phase' = [phase EXCEPT ![r] = "get"]
  /\ kind' = [kind EXCEPT ![r] = k]
  /\ param' = [param EXCEPT ![r] = p]
  /\ UNCHANGED <<storeVars, operations_, paths_to_create, posted,
                 callerVars, hmVars, cf>>

\* err = E::INVALID_PARAM; return -1: no request is made
InvalidParam(fn) ==
  /\ err' = "INVALID_PARAM"
  /\ rejected' = rejected \cup {fn}
  /\ UNCHANGED <<storeVars, reqVars, hmVars, cf>>

\* a caller may call the store while it is alive; r is the request the
\* call makes if it makes one.  The requests made and the entry points
\* that refused a call are at most MaxCalls.
CanCall(r) ==
  /\ ~shutting_down
  /\ phase[r] = "idle"
  /\ \A q \in Reqs : q < r => phase[q] # "idle"
  /\ Cardinality({q \in Reqs : phase[q] # "idle"}) +
       Cardinality(rejected) < MaxCalls

\* setLastCleanEpoch() refusing only a tail record that is not valid
TailRecordRefused_NotValid(tail_record) == ~tail_record.valid

\* the test of the tail record in setLastCleanEpoch()
TailRecordRefused(tail_record) ==
  ~tail_record.valid \/ tail_record.offset_within_epoch

\* the test of the log id in createOrUpdateMetaData()
LogIdRefused(logid) == logid <= LOGID_INVALID \/ logid > LOGID_MAX

\* ZookeeperEpochStore::getLastCleanEpoch()
GetLastCleanEpoch(r) ==
  /\ CanCall(r)
  /\ RunRequest(r, "GetLastCleanEpoch", 0, LOGID_MAX)

\* ZookeeperEpochStore::setLastCleanEpoch()
SetLastCleanEpoch(r) ==
  /\ CanCall(r)
  /\ \E lce \in 1..MaxEpoch, tail_record \in TailRecords :
       IF TailRecordRefused(tail_record)
       THEN InvalidParam("setLastCleanEpoch")
       ELSE RunRequest(r, "SetLastCleanEpoch", lce, tail_record)

\* ZookeeperEpochStore::createOrUpdateMetaData()
CreateOrUpdateMetaData(r) ==
  /\ CanCall(r)
  /\ \E logid \in LogIds, updater \in Params("EpochMetaData") :
       IF LogIdRefused(logid)
       THEN InvalidParam("createOrUpdateMetaData")
       ELSE RunRequest(r, "EpochMetaData", updater, logid)

\* the ensemble answers the getData of request r
GetDataComplete(r) ==
  /\ phase[r] = "get"
  /\ LET res == ZkGetData(znodes, call[r].path)
     IN \E rc \in {res.rc} \cup ZkFailures :
          OnGetZnodeComplete(r, rc,
                             IF rc = "ZOK" THEN res.value ELSE EmptyValue,
                             [version |-> IF rc = "ZOK" THEN res.version
                                          ELSE 0])
  /\ UNCHANGED <<storeVars, kind, param, callerVars, hmVars, cf>>

\* the ensemble answers the setData of request r
SetDataComplete(r) ==
  /\ phase[r] = "set"
  /\ LET res == ZkSetData(znodes, call[r].path, call[r].value,
                          call[r].version)
         old == znodes[call[r].path]
     IN \E rc \in {res.rc} \cup ZkFailures :
          /\ znodes' = IF rc = "ZOK" THEN res.tree ELSE znodes
          /\ PostRequestCompletion(r, rc, "set",
               [hist[r] EXCEPT !.rc = rc,
                               !.overwrote = IF rc = "ZOK"
                                             THEN <<old.value, old.version>>
                                             ELSE @])
  /\ UNCHANGED <<clients, zkclient, shutting_down, create_root_znodes,
                 kind, param, operations_, paths_to_create, callerVars, hmVars, cf>>

\* the ensemble answers the provisioning multi-op of request r
MultiOpComplete(r) ==
  /\ phase[r] = "multi"
  /\ LET res == ZkMultiOp(znodes, call[r].ops)
     IN \E rc \in {res.rc} \cup ZkFailures :
          /\ znodes' = IF rc = "ZOK" THEN res.tree ELSE znodes
          /\ ZkLogMultiCreateCF(r, rc,
               [hist[r] EXCEPT !.rc = rc,
                               !.overwrote = IF rc = "ZOK"
                                             THEN call[r].ops ELSE @])
  /\ UNCHANGED <<clients, zkclient, shutting_down, create_root_znodes,
                 kind, param, callerVars, hmVars, cf>>

\* the ensemble answers the create of a root znode of request r
CreateRootComplete(r) ==
  /\ phase[r] = "roots"
  /\ LET res == ZkMultiOp(znodes, call[r].ops)
     IN \E rc \in {res.rc} \cup ZkFailures :
          /\ znodes' = IF rc = "ZOK" THEN res.tree ELSE znodes
          /\ MultiOpCF(r, rc, [hist[r] EXCEPT !.rc = rc])
  /\ UNCHANGED <<clients, zkclient, shutting_down, create_root_znodes,
                 kind, param, callerVars, hmVars, cf>>

\* onConfigUpdate() not comparing the quorum with the one of the client
Replaces_AnyQuorum(cfg, quorum, made) == cfg # NoConfig /\ made

\* onConfigUpdate(): the three tests before zkclient_.update(); quorum is
\* cur->getQuorum()
Replaces(cfg, quorum, made) ==
  cfg # NoConfig /\ cfg # quorum /\ made

\* ZookeeperEpochStore::onConfigUpdate(): cfg is the quorum string of the
\* new configuration, made tells whether the factory returns a client
OnConfigUpdate ==
  /\ ~shutting_down
  /\ \E cfg \in Quorums \cup {NoConfig}, made \in BOOLEAN :
       /\ made => Len(clients) < MaxClients
       /\ IF Replaces(cfg, clients[zkclient], made)
          THEN /\ clients' = Append(clients, cfg)
               /\ zkclient' = Len(clients) + 1
          ELSE UNCHANGED <<clients, zkclient>>
  /\ UNCHANGED <<znodes, shutting_down, create_root_znodes, reqVars,
                 callerVars, hmVars, cf>>

\* ZookeeperEpochStore::~ZookeeperEpochStore()
Destroy ==
  /\ ~shutting_down
  /\ shutting_down' = TRUE
  /\ UNCHANGED <<znodes, clients, zkclient, create_root_znodes, reqVars,
                 callerVars, hmVars, cf>>

Next ==
  \/ \E r \in Reqs : GetLastCleanEpoch(r)
  \/ \E r \in Reqs : SetLastCleanEpoch(r)
  \/ \E r \in Reqs : CreateOrUpdateMetaData(r)
  \/ \E r \in Reqs : GetDataComplete(r)
  \/ \E r \in Reqs : SetDataComplete(r)
  \/ \E r \in Reqs : MultiOpComplete(r)
  \/ \E r \in Reqs : CreateRootComplete(r)
  \/ OnConfigUpdate
  \/ Destroy

Spec == Init /\ [][Next]_vars

\* the store is never destroyed and its callers pass arguments it accepts
NextAlive ==
  \/ \E r \in Reqs : GetLastCleanEpoch(r)
  \/ \E r \in Reqs : SetLastCleanEpoch(r) /\ UNCHANGED callerVars
  \/ \E r \in Reqs : CreateOrUpdateMetaData(r) /\ UNCHANGED callerVars
  \/ \E r \in Reqs : GetDataComplete(r)
  \/ \E r \in Reqs : SetDataComplete(r)
  \/ \E r \in Reqs : MultiOpComplete(r)
  \/ \E r \in Reqs : CreateRootComplete(r)
  \/ OnConfigUpdate

\* the store is never destroyed, no call is refused and every call that was
\* issued is answered
FairSpec ==
  /\ Init
  /\ [][NextAlive]_vars
  /\ \A r \in Reqs :
       /\ WF_vars(GetDataComplete(r))
       /\ WF_vars(SetDataComplete(r))
       /\ WF_vars(MultiOpComplete(r))
       /\ WF_vars(CreateRootComplete(r))

TypeOK ==
  /\ zkclient \in 1..Len(clients)
  /\ \A r \in Reqs : Len(posted[r]) <= 2


\* ------------------------------------------- ServerHealthMonitor: handlers
MonitorLoopClosure ==
  [age |-> 0, duration |-> 0, fn |-> "monitorLoop", flag |-> FALSE,
   num |-> 0, idx |-> 0]

\* the closure a report method hands to executor_.add(); age is the age of
\* the time point tp it captured
ReportClosure(fn, flag, num, idx, duration) ==
  [age |-> 0, duration |-> duration, fn |-> fn, flag |-> flag,
   num |-> num, idx |-> idx]

IsReport(c) == c.fn # "monitorLoop"

\* the closures that captured tp = SteadyTimestamp::now()
CapturesTime(c) == c.fn \in {"reportWorkerQueueStall", "reportWorkerStall"}

\* the closures of report methods that wait on the executor
QueuedReports == Len(SelectSeq(executor, IsReport))

\* health_monitor_delay_: the wakeup came more than kMaxLoopStall late
LoopStalled(loop_entry_delay) == loop_entry_delay - SleepPeriod > kMaxLoopStall

\* the first test of calculateNegativeSignal() taking in the critical stalls
NegativeSignal_OrCritical(info, stall_info) ==
  \/ info.health_monitor_delay_
  \/ info.watchdog_delay_
  \/ info.total_stalled_workers > 0
  \/ stall_info.stalled_
  \/ stall_info.critically_stalled_ > 0

\* calculateNegativeSignal(): the first test, of the delays and the stalls
NegativeSignal(info, stall_info) ==
  \/ info.health_monitor_delay_
  \/ info.watchdog_delay_
  \/ info.total_stalled_workers > 0
  \/ stall_info.stalled_

\* calculateNegativeSignal(): the second test, of the critical stalls
CriticalSignal(stall_info) == stall_info.critically_stalled_ > 0

\* negativeFeedback() followed by positiveFeedback(now)
Penalised(timers) ==
  UNION { { positiveFeedback(n) : n \in negativeFeedback(t) } : t \in timers }

\* processReports(): node_state_ from the timer and overloaded_
NodeStateOf(current, overloaded) ==
  IF SleepPeriod < current THEN UNHEALTHY
  ELSE IF overloaded THEN OVERLOADED ELSE HEALTHY

\* ServerHealthMonitor::monitorLoop(): last_entry_time_ is now and a sleep
\* of sleep_period_ begins
MonitorLoop ==
  /\ last_entry_time' = 0
  /\ sleeping' = TRUE

\* ServerHealthMonitor::processReports() with internal_info_ being info,
\* followed by monitorLoop()
ProcessReports(info) ==
  LET updated == positiveFeedback(state_timer)
      stall_info == isStalled(info.worker_stalls_)
      first == IF NegativeSignal(info, stall_info)
               THEN Penalised({updated}) ELSE {updated}
      second == IF CriticalSignal(stall_info)
                THEN Penalised(first) ELSE first
      feedbacks == (IF NegativeSignal(info, stall_info) THEN 1 ELSE 0) +
                   (IF CriticalSignal(stall_info) THEN 1 ELSE 0)
  IN \E res \in isOverloaded(info.worker_queue_stalls_,
                             max_queue_stall_duration) :
       IF res.died
       THEN /\ died' = TRUE
            /\ UNCHANGED <<state_timer, node_state, overloaded_, stall_info_,
                           last_tick, last_entry_time, sleeping>>
       ELSE \E timer \in second :
              /\ state_timer' = timer
              /\ stall_info_' = stall_info
              /\ overloaded_' = res.overloaded
              /\ node_state' = NodeStateOf(timer.current, res.overloaded)
              /\ last_tick' =
                   [negative_feedbacks |-> feedbacks,
                    state_indicator |->
                      IF NodeStateOf(timer.current, res.overloaded) = HEALTHY
                      THEN 1 ELSE 0]
              /\ MonitorLoop
              /\ UNCHANGED died

\* the continuation of monitorLoop() never looking at shutdown_
ObservesShutdown_Never(flag) == FALSE

\* the continuation of monitorLoop(): shutdown_.load()
ObservesShutdown(flag) == flag

\* the continuation of monitorLoop(), run by the executor
Wake ==
  IF ObservesShutdown(shutdown_)
  THEN /\ shutdown_promise' = Min(shutdown_promise + 1, 2)
       /\ UNCHANGED <<internal_info, state_timer, node_state, overloaded_,
                      stall_info_, last_tick, last_entry_time, sleeping,
                      died>>
  ELSE LET info == [internal_info EXCEPT
                      !.health_monitor_delay_ = LoopStalled(last_entry_time)]
       IN /\ internal_info' = info
          /\ ProcessReports(info)
          /\ UNCHANGED shutdown_promise

\* the idx of a report is one of a worker
InRange(idx) == idx >= 0 /\ idx < Capacity

\* the closures of the four report methods, run by the executor
RunReport(c) ==
  /\ internal_info' =
       CASE c.fn = "reportWatchdogHealth" ->
              [internal_info EXCEPT !.watchdog_delay_ = c.flag]
         [] c.fn = "reportStalledWorkers" ->
              [internal_info EXCEPT !.total_stalled_workers = c.num]
         [] c.fn = "reportWorkerQueueStall" ->
              IF InRange(c.idx)
              THEN [internal_info EXCEPT !.worker_queue_stalls_[c.idx] =
                      AddValue(@, c.age, c.duration)]
              ELSE internal_info
         [] OTHER ->
              IF InRange(c.idx)
              THEN [internal_info EXCEPT !.worker_stalls_[c.idx] =
                      AddValue(@, c.age, c.duration)]
              ELSE internal_info
  /\ UNCHANGED <<shutdown_promise, state_timer, node_state, overloaded_,
                 stall_info_, last_tick, last_entry_time, sleeping, died>>

\* a report method never looking at shutdown_
ReportRefused_Never(flag) == FALSE

\* a report method: if (shutdown_.load()) return
ReportRefused(flag) == flag

\* a report method: nothing once shutdown_ is observed, else one closure
\* more on the executor
Report(c) ==
  /\ ~died
  /\ reports < MaxReports
  /\ QueuedReports < MaxQueue
  /\ reports' = reports + 1
  /\ executor' = IF ReportRefused(shutdown_)
               THEN executor
               ELSE Append(executor, c)
  /\ UNCHANGED <<max_queue_stall_duration, is_started, shutdown_,
                 shutdown_promise, sleeping, last_entry_time, internal_info,
                 state_timer, node_state, overloaded_, stall_info_,
                 last_tick, died, emcVars, cf>>

\* -------------------------------------------- ServerHealthMonitor: actions
\* ServerHealthMonitor::startUp(): updateVariables(now), then monitorLoop()
StartUp ==
  /\ ~died
  /\ ~is_started
  /\ is_started' = TRUE
  /\ state_timer' = positiveFeedback(state_timer)
  /\ MonitorLoop
  /\ UNCHANGED <<max_queue_stall_duration, shutdown_, shutdown_promise,
                 executor, internal_info, node_state, overloaded_,
                 stall_info_, last_tick, reports, died, emcVars, cf>>

\* the longest delay of a wakeup that still makes a difference
MaxDelay == SleepPeriod + kMaxLoopStall + 1

\* half a period passes: every time point is one half period older.  The
\* time before startUp() is left out: nothing reads it.
Advance ==
  /\ ~died
  /\ is_started
  /\ last_entry_time' = Min(last_entry_time + 1, MaxDelay)
  /\ state_timer' = [state_timer EXCEPT !.elapsed = Min(@ + 1, MaxElapsed)]
  /\ executor' = [i \in 1..Len(executor) |->
                    IF CapturesTime(executor[i])
                    THEN [executor[i] EXCEPT !.age = Min(@ + 1, MaxAge + 1)]
                    ELSE executor[i]]
  /\ internal_info' =
       [internal_info EXCEPT
          !.worker_stalls_ = [w \in Workers |-> Older(@[w])],
          !.worker_queue_stalls_ = [w \in Workers |-> Older(@[w])]]
  /\ UNCHANGED <<max_queue_stall_duration, is_started, shutdown_,
                 shutdown_promise, sleeping, node_state, overloaded_,
                 stall_info_, last_tick, reports, died, emcVars, cf>>

\* folly::futures::sleep(sleep_period_).via(&executor_): the sleep is over
\* and the continuation goes to the executor
SleepOver ==
  /\ ~died
  /\ sleeping
  /\ last_entry_time >= SleepPeriod
  /\ sleeping' = FALSE
  /\ executor' = Append(executor, MonitorLoopClosure)
  /\ UNCHANGED <<max_queue_stall_duration, is_started, shutdown_,
                 shutdown_promise, last_entry_time, internal_info,
                 state_timer, node_state, overloaded_, stall_info_,
                 last_tick, reports, died, emcVars, cf>>

\* the executor runs the closure that waited longest
Execute ==
  /\ ~died
  /\ executor # <<>>
  /\ executor' = Tail(executor)
  /\ IF Head(executor).fn = "monitorLoop"
     THEN Wake
     ELSE RunReport(Head(executor))
  /\ UNCHANGED <<max_queue_stall_duration, is_started, shutdown_, reports,
                 emcVars, cf>>

\* ServerHealthMonitor::reportWatchdogHealth()
ReportWatchdogHealth ==
  \E delayed \in BOOLEAN :
    Report(ReportClosure("reportWatchdogHealth", delayed, 0, 0, 0))

\* ServerHealthMonitor::reportStalledWorkers()
ReportStalledWorkers ==
  \E num_stalled \in 0..1 :
    Report(ReportClosure("reportStalledWorkers", FALSE, num_stalled, 0, 0))

\* ServerHealthMonitor::reportWorkerQueueStall()
ReportWorkerQueueStall ==
  \E idx \in Indexes, duration \in Durations :
    Report(ReportClosure("reportWorkerQueueStall", FALSE, 0, idx, duration))

\* ServerHealthMonitor::reportWorkerStall()
ReportWorkerStall ==
  \E idx \in Indexes, duration \in Durations :
    Report(ReportClosure("reportWorkerStall", FALSE, 0, idx, duration))

\* ServerHealthMonitor::shutdown()
Shutdown ==
  /\ ~died
  /\ ~shutdown_
  /\ shutdown_' = TRUE
  /\ UNCHANGED <<max_queue_stall_duration, is_started, shutdown_promise,
                 sleeping, last_entry_time, executor, internal_info,
                 state_timer, node_state, overloaded_, stall_info_,
                 last_tick, reports, died, emcVars, cf>>

HmNext ==
  \/ StartUp
  \/ Advance
  \/ SleepOver
  \/ Execute
  \/ ReportWatchdogHealth
  \/ ReportStalledWorkers
  \/ ReportWorkerQueueStall
  \/ ReportWorkerStall
  \/ Shutdown

HmSpec == HmInit /\ [][HmNext]_vars

\* the monitor with at most MaxFairReports calls of the report methods
HmNextFair ==
  \/ StartUp
  \/ Advance
  \/ SleepOver
  \/ Execute
  \/ ReportWatchdogHealth /\ reports' <= MaxFairReports
  \/ ReportStalledWorkers /\ reports' <= MaxFairReports
  \/ ReportWorkerQueueStall /\ reports' <= MaxFairReports
  \/ ReportWorkerStall /\ reports' <= MaxFairReports
  \/ Shutdown

\* time passes, a sleep that is over hands its continuation to the
\* executor, and the executor runs what waits on it
HmFairSpec ==
  /\ HmInit
  /\ [][HmNextFair]_vars
  /\ WF_vars(Advance)
  /\ WF_vars(SleepOver)
  /\ WF_vars(Execute)

HmTypeOK ==
  /\ state_timer.current \in 0..kMaxTimerValue
  /\ shutdown_promise \in 0..2
  /\ node_state \in {HEALTHY, OVERLOADED, UNHEALTHY}
  /\ Len(executor) <= MaxQueue + 1

\* ----------------------------------------- the translation of return codes
\* onGetZnodeComplete(): st = zkCfStatus(rc, ...), the status at err: when
\* it is neither OK nor NOTFOUND
TranslateInGetCompletion ==
  /\ cf.fn = "onGetZnodeComplete"
  /\ cf.st = NoStatus
  /\ cf' = [cf EXCEPT !.st = zkCfStatus(cf.rc)]
  /\ UNCHANGED <<emcVars, hmVars>>

\* postRequestCompletion(rc, zrq), which the completions of setData and of
\* the multi-ops end with: st = zkCfStatus(rc, ...)
TranslateInPostRequestCompletion ==
  /\ cf.fn \in CompletionFunctions \ {"onGetZnodeComplete"}
  /\ cf.st = NoStatus
  /\ cf' = [cf EXCEPT !.st = zkCfStatus(cf.rc)]
  /\ UNCHANGED <<emcVars, hmVars>>

\* ZookeeperEpochStore::zkOpStatus(rc, logid, op)
TranslateInZkOpStatus ==
  /\ cf.fn = "zkOpStatus"
  /\ cf.st = NoStatus
  /\ cf' = [cf EXCEPT !.st = zkOpStatus(cf.rc, cf.zstate)]
  /\ UNCHANGED <<emcVars, hmVars>>

CfNext ==
  \/ TranslateInGetCompletion
  \/ TranslateInPostRequestCompletion
  \/ TranslateInZkOpStatus

CfSpec == CfInit /\ [][CfNext]_vars

CfTypeOK ==
  /\ cf.fn \in StatusFunctions
  /\ cf.rc \in ZkCodes
  /\ cf.zstate \in SessionStates

\* ------------------------------------------------------------------ claims
\* C1: every request run_request accepted is answered on every path, and
\* its completion is posted exactly once: never twice, never before the
\* request is over, and never zero times when the store was not being
\* destroyed at the time the request ended.
C1_PostedExactlyOnce ==
  /\ [](\A r \in Reqs :
          /\ Len(posted[r]) <= 1
          /\ phase[r] # "done" => posted[r] = <<>>
          /\ phase[r] = "done" /\ ~hist[r].flag => Len(posted[r]) = 1)
  /\ \A r \in Reqs : (phase[r] # "idle") ~> (phase[r] = "done")

\* a request that went through the creation of the root znodes and the
\* retried multi-op, and was answered once
C1_Witness ==
  \E r \in Reqs :
    /\ phase[r] = "done"
    /\ hist[r].retried
    /\ hist[r].via = "multi"
    /\ ~hist[r].flag
    /\ Len(posted[r]) = 1


\* the requests that issued a setData
WentToSet(r) ==
  phase[r] = "set" \/ (phase[r] = "done" /\ hist[r].via = "set")

\* C2: the setData of a request carries the version its own getData
\* returned, and a setData that was applied overwrote the value and the
\* version that read saw.
C2_SetDataCarriesReadVersion ==
  \A r \in Reqs :
    /\ phase[r] = "set" =>
         /\ call[r].version = hist[r].version
         /\ call[r].path = getZnodePath(kind[r])
    /\ phase[r] = "done" /\ hist[r].via = "set" /\ hist[r].rc = "ZOK" =>
         /\ hist[r].overwrote = <<hist[r].value, hist[r].version>>
         /\ posted[r] = <<"OK">>

\* a write that succeeded on a znode another request had written before
C2_Witness ==
  \E r \in Reqs :
    /\ phase[r] = "done"
    /\ hist[r].via = "set"
    /\ hist[r].rc = "ZOK"
    /\ hist[r].version = 1

\* two requests that read the same znode at the same version and both
\* went on to setData
SameRead(r, q) ==
  /\ r # q
  /\ WentToSet(r)
  /\ WentToSet(q)
  /\ getZnodePath(kind[r]) = getZnodePath(kind[q])
  /\ hist[r].version = hist[q].version

\* C3: of the requests that read one znode at one version at most one
\* setData succeeds; a setData the ensemble refuses is refused with a
\* version mismatch, its request completes with AGAIN and the znodes stay
\* as they were.
C3_OneWriterPerVersion ==
  /\ [](\A r \in Reqs :
          /\ \A q \in Reqs :
               SameRead(r, q) /\ phase[r] = "done" /\ phase[q] = "done" =>
                 ~(hist[r].rc = "ZOK" /\ hist[q].rc = "ZOK")
          /\ phase[r] = "done" /\ hist[r].via = "set" =>
               /\ hist[r].rc \in {"ZOK", "ZBADVERSION"} \cup ZkFailures
               /\ hist[r].rc = "ZBADVERSION" => posted[r] = <<"AGAIN">>)
  /\ [][\A r \in Reqs :
          phase[r] = "set" /\ phase'[r] = "done" /\ hist'[r].rc # "ZOK" =>
            znodes' = znodes]_vars

\* two requests read the same version; one write succeeded, the other was
\* refused and completed with AGAIN
C3_Witness ==
  \E r, q \in Reqs :
    /\ SameRead(r, q)
    /\ phase[r] = "done"
    /\ phase[q] = "done"
    /\ hist[r].rc = "ZOK"
    /\ hist[q].rc = "ZBADVERSION"
    /\ posted[q] = <<"AGAIN">>

LcePath == Append(znodePathForLog, znodeNameDataLog)

\* C4: the last clean epoch stored in the znode never decreases, and a
\* set_last_clean_epoch that completes OK wrote an epoch above the one it
\* overwrote.
C4_LceNeverDecreases ==
  /\ [][znodes[LcePath].exists =>
          /\ znodes'[LcePath].exists
          /\ znodes'[LcePath].value >= znodes[LcePath].value]_vars
  /\ [](\A r \in Reqs :
          kind[r] = "SetLastCleanEpoch" /\ phase[r] = "done" /\
          posted[r] = <<"OK">> =>
            /\ hist[r].overwrote[1] < param[r]
            /\ znodes[LcePath].value >= param[r])

\* two concurrent set_last_clean_epoch: the higher epoch was written, the
\* other request lost the race
C4_Witness ==
  \E r, q \in Reqs :
    /\ r # q
    /\ kind[r] = "SetLastCleanEpoch"
    /\ kind[q] = "SetLastCleanEpoch"
    /\ posted[r] = <<"OK">>
    /\ posted[q] = <<"AGAIN">>
    /\ param[q] < param[r]
    /\ znodes[LcePath].value = param[r]


\* the request's provisioning multi-op created the log's subtree
CreatedSubtree(r) ==
  /\ hist[r].via = "multi"
  /\ hist[r].rc = "ZOK"
  /\ hist[r].overwrote # <<>>

C6_RetryCarriesSameOps ==
  \A r \in Reqs :
    /\ phase[r] = "multi" /\ hist[r].retried =>
         call[r].ops =
           ProvisionOps(composeZnodeValue(kind[r], param[r], NoValue))
    /\ phase[r] = "done" /\ hist[r].retried /\ hist[r].via = "multi" /\
       hist[r].rc = "ZOK" =>
         /\ posted[r] = <<"OK">>
         /\ \A i \in 1..4 : znodes[ProvisionOps(1)[i].path].exists

\* C7: a completion is withheld exactly when its status is SHUTDOWN and the
\* shutdown flag was set at that moment; otherwise the status is posted,
\* whichever handler ended the request.
C7_SuppressedOnlyOnShutdown ==
  \A r \in Reqs :
    phase[r] = "done" =>
      /\ hist[r].via \in {"get", "set", "multi", "roots"}
      /\ posted[r] = IF hist[r].st = "SHUTDOWN" /\ hist[r].flag
                     THEN <<>> ELSE <<hist[r].st>>

\* one request got SHUTDOWN from a client while the store was alive and
\* was answered; another failed in the creation of the root znodes with
\* SHUTDOWN while the store was being destroyed and was not answered
C7_Witness ==
  \E r, q \in Reqs :
    /\ phase[r] = "done"
    /\ hist[r].st = "SHUTDOWN"
    /\ ~hist[r].flag
    /\ posted[r] = <<"SHUTDOWN">>
    /\ phase[q] = "done"
    /\ hist[q].via = "roots"
    /\ hist[q].st = "SHUTDOWN"
    /\ hist[q].flag
    /\ posted[q] = <<>>

\* C8 as claimed: once the shutdown flag is set no completion is posted.
C8_NothingPostedAfterShutdown ==
  [][\A r \in Reqs :
       shutting_down /\ phase[r] # "done" /\ phase'[r] = "done" =>
         posted'[r] = <<>>]_vars

\* C8 as amended: once the shutdown flag is set, a completion that arrives
\* with status SHUTDOWN is dropped.
C8_ShutdownStatusDropped ==
  [][\A r \in Reqs :
       shutting_down /\ phase[r] # "done" /\ phase'[r] = "done" /\
       hist'[r].st = "SHUTDOWN" => posted'[r] = <<>>]_vars

\* the flag is set; one completion came with SHUTDOWN and was dropped, one
\* came from a setData with another status and was posted
C8_Witness ==
  \E r, q \in Reqs :
    /\ shutting_down
    /\ phase[r] = "done"
    /\ hist[r].flag
    /\ hist[r].st = "SHUTDOWN"
    /\ posted[r] = <<>>
    /\ phase[q] = "done"
    /\ hist[q].flag
    /\ hist[q].via = "set"
    /\ Len(posted[q]) = 1

\* C9 as claimed: a request issues all its calls on the client it started
\* on.
C9_NoMixedHandles ==
  \A r \in Reqs : phase[r] # "idle" => hist[r].used = {hist[r].client}

\* C9 as amended: every call is issued on the client that is current when
\* the call is issued, and stays on that client until it is answered.
C9_CallOnCurrentHandle ==
  [][\A r \in Reqs :
       /\ call'[r] # call[r] /\ call'[r] # NoCall =>
            /\ call'[r].client = zkclient
            /\ call'[r].client \in hist'[r].used
       /\ phase[r] = "idle" /\ phase'[r] # "idle" =>
            hist'[r].client = zkclient]_vars

\* a request that was in flight when the client was replaced went on to
\* issue a call on the new client and is over
C9_Witness ==
  \E r \in Reqs :
    /\ phase[r] = "done"
    /\ hist[r].client = 1
    /\ hist[r].used = {1, 2}
    /\ hist[r].retried

\* C10: the create of a root znode that another run created in the
\* meantime (EXISTS) counts as done: the path is popped and the next create
\* or the deferred multi-op follows; the deferred request is ended only by
\* a failure of the ensemble or of the client.
C10_ExistsIsNotAFailure ==
  [][\A r \in Reqs :
       phase[r] = "roots" /\ call'[r] # call[r] =>
         IF hist'[r].rc \in {"ZOK", "ZNODEEXISTS"}
         THEN /\ paths_to_create'[r] = Pop(paths_to_create[r])
              /\ posted'[r] = <<>>
              /\ IF paths_to_create'[r] = <<>>
                 THEN phase'[r] = "multi" /\ hist'[r].retried
                 ELSE phase'[r] = "roots"
         ELSE /\ hist'[r].rc \in ZkFailures
              /\ phase'[r] = "done"
              /\ hist'[r].st = zkCfStatus(hist'[r].rc)]_vars

\* two requests created the root znodes at the same time: the last create
\* of one of them found the znode the other had created, and its deferred
\* multi-op was submitted again
C10_Witness ==
  \E r, q \in Reqs :
    /\ r # q
    /\ phase[r] = "multi"
    /\ hist[r].retried
    /\ hist[r].rc = "ZNODEEXISTS"
    /\ hist[q].retried

\* C11: set_last_clean_epoch with a tail record that is not valid or holds
\* an offset within epoch, and create_or_update_metadata with a log id
\* <= LOGID_INVALID or > LOGID_MAX, return -1 with err INVALID_PARAM at once:
\* the step issues no call, makes no request and posts no completion, and
\* no request is ever made from such arguments.
C11_InvalidParamIsSynchronous ==
  /\ [](\A r \in Reqs :
          /\ kind[r] = "SetLastCleanEpoch" =>
               hist[r].arg.valid /\ ~hist[r].arg.offset_within_epoch
          /\ kind[r] = "EpochMetaData" =>
               hist[r].arg > LOGID_INVALID /\ hist[r].arg <= LOGID_MAX)
  /\ [](rejected # {} => err = "INVALID_PARAM")
  /\ [][callerVars' # callerVars =>
          /\ err' = "INVALID_PARAM"
          /\ UNCHANGED <<storeVars, reqVars>>]_vars

\* both entry points refused a call before any request was made: err is
\* INVALID_PARAM, no call is in flight and nothing was posted
C11_Witness ==
  /\ rejected = {"setLastCleanEpoch", "createOrUpdateMetaData"}
  /\ err = "INVALID_PARAM"
  /\ \A r \in Reqs :
       phase[r] = "idle" /\ call[r] = NoCall /\ posted[r] = <<>>

\* what onGotZnodeValue() answered to the read of request r
StepOf(r) == onGotZnodeValue(kind[r], param[r], hist[r].value)

\* C12: a get_last_clean_epoch request issues nothing but its getData and
\* ends in the handler of that read; a request whose next step is STOP or
\* FAILED posts the status the request left in err and issues no setData
\* and no multi-op; the znodes change only when a write of a request of
\* another kind is applied.
C12_ReadsNeverWrite ==
  /\ [](\A r \in Reqs :
          /\ kind[r] = "GetLastCleanEpoch" =>
               /\ phase[r] \in {"get", "done"}
               /\ call[r].op \in {"none", "getData"}
               /\ phase[r] = "done" => hist[r].via = "get"
          /\ phase[r] \in {"set", "multi", "roots"} =>
               StepOf(r).next \in {MODIFY, PROVISION}
          /\ phase[r] = "done" /\ hist[r].rc \in {"ZOK", "ZNONODE"} /\
             StepOf(r).next \in {STOP, FAILED} =>
               /\ hist[r].via = "get"
               /\ hist[r].st = StepOf(r).err
               /\ posted[r] = <<StepOf(r).err>>)
  /\ [][\A r \in Reqs :
          phase[r] = "get" /\ phase'[r] = "done" =>
            znodes' = znodes /\ call'[r] = NoCall]_vars
  /\ [][znodes' # znodes =>
          \E q \in Reqs :
            /\ phase[q] \in {"set", "multi", "roots"}
            /\ kind[q] # "GetLastCleanEpoch"
            /\ hist'[q].rc = "ZOK"]_vars

\* a read of the last clean epoch ended with OK (STOP) and a metadata
\* update whose updater failed ended with FAILED; neither wrote
C12_Witness ==
  \E r, q \in Reqs :
    /\ kind[r] = "GetLastCleanEpoch"
    /\ phase[r] = "done"
    /\ posted[r] = <<"OK">>
    /\ kind[q] = "EpochMetaData"
    /\ phase[q] = "done"
    /\ hist[q].via = "get"
    /\ posted[q] = <<"FAILED">>
    /\ znodes \in InitialTrees

\* C13: with zk-create-root-znodes disabled, a provisioning multi-op that
\* comes back NOTFOUND ends the request: NOTFOUND is posted, no create of a
\* root znode is issued and the multi-op is not submitted again.
C13_NoRootsWhenDisabled ==
  /\ [](~create_root_znodes =>
          \A r \in Reqs :
            /\ phase[r] # "roots"
            /\ paths_to_create[r] = <<>>
            /\ ~hist[r].retried)
  /\ [][\A r \in Reqs :
          ~create_root_znodes /\ phase[r] = "multi" /\
          phase'[r] # "multi" /\ hist'[r].rc = "ZNONODE" =>
            /\ phase'[r] = "done"
            /\ call'[r] = NoCall
            /\ hist'[r].st = "NOTFOUND"
            /\ posted'[r] = <<"NOTFOUND">>
            /\ znodes' = znodes]_vars

\* the setting is off, the root znode is missing, and a provisioning
\* request ended with NOTFOUND after its one multi-op
C13_Witness ==
  \E r \in Reqs :
    /\ ~create_root_znodes
    /\ ~znodes[rootPath].exists
    /\ phase[r] = "done"
    /\ hist[r].via = "multi"
    /\ hist[r].rc = "ZNONODE"
    /\ ~hist[r].retried
    /\ posted[r] = <<"NOTFOUND">>

\* C14: in every reachable state of the health monitor the current value
\* of the state timer lies between sleep_period and kMaxTimerValue,
\* whatever ticks ran and whatever feedback they applied.
C14_TimerWithinBounds ==
  /\ SleepPeriod <= state_timer.current
  /\ state_timer.current <= kMaxTimerValue

\* a tick applied the negative feedback twice and the timer stands at its
\* maximum; the tick before it had left the timer above its minimum
C14_Witness ==
  /\ is_started
  /\ last_tick.negative_feedbacks = 2
  /\ state_timer.current = kMaxTimerValue
  /\ node_state = UNHEALTHY

\* a sleep began in this step of a started monitor: a wake ran
\* processReports() and monitorLoop()
Ticked == is_started /\ ~sleeping /\ sleeping'

\* spec 4.6: the queue series has a window with samples whose sum reaches
\* max_queue_stall_duration and whose average reaches max_queue_stalls_avg
OverloadedWorker(t) ==
  \E p \in Periods :
    /\ PeriodCount(t, p) > 0
    /\ PeriodSum(t, p) >= max_queue_stall_duration
    /\ PeriodSum(t, p) \div PeriodCount(t, p) >= MaxQueueStallsAvg

Woke ==
  /\ executor # <<>>
  /\ Head(executor).fn = "monitorLoop"
  /\ Len(executor') = Len(executor) - 1

\* a tick is scheduled: the loop sleeps or its continuation waits on the
\* executor
TickScheduled ==
  sleeping \/ \E i \in 1..Len(executor) : executor[i].fn = "monitorLoop"

\* C16: once shutdown() was called on a started monitor, the next wake of
\* the loop fulfils the shutdown promise and schedules no further tick; the
\* promise is fulfilled once, and under a fair executor it is fulfilled
\* eventually, whatever reports are submitted before, during or after
\* shutdown().
C16_ShutdownResolves ==
  /\ [][Woke /\ shutdown_ =>
          /\ shutdown_promise' = shutdown_promise + 1
          /\ ~TickScheduled']_vars
  /\ [](shutdown_promise >= 1 => ~TickScheduled)
  /\ [](shutdown_promise <= 1)
  /\ (is_started /\ shutdown_) ~> (shutdown_promise = 1)

\* the promise was fulfilled while the closure of a report still waits on
\* the executor
C16_Witness ==
  /\ is_started
  /\ shutdown_
  /\ shutdown_promise = 1
  /\ reports = 1
  /\ executor # <<>>

\* the executor runs a closure in this step
Executed == executor # <<>> /\ Len(executor') = Len(executor) - 1

\* a report method is called in this step
Reported == reports' = reports + 1

Steady ==
  /\ is_started
  /\ ~shutdown_
  /\ \A w \in Workers :
       /\ internal_info.worker_stalls_[w] = EmptySeries
       /\ internal_info.worker_queue_stalls_[w] = EmptySeries
  /\ ~internal_info.watchdog_delay_
  /\ internal_info.total_stalled_workers = 0
  /\ ~LoopStalled(last_entry_time)

CreateInFlight(r) == call[r].ops[1].path

\* the proper ancestors of a path, "/" excluded
ProperAncestors(path) == { SubSeq(path, 1, n) : n \in 1..(Len(path) - 1) }

\* C19: the ancestor creator has one create in flight, of the shallowest
\* path that is left on its stack; the stack holds root_path and its
\* parents from the deepest, at the bottom, to the shallowest, and whenever
\* the create of a path is in flight every proper ancestor of that path
\* has left the stack and exists; the create of root_path is the last one
\* before the deferred multi-op is submitted again.
C19_ShallowestFirst ==
  /\ [](\A r \in Reqs :
          phase[r] = "roots" =>
            LET stack == paths_to_create[r]
            IN /\ call[r].op = "multiOp"
               /\ Len(call[r].ops) = 1
               /\ stack # <<>>
               /\ \A i \in 1..Len(stack) :
                    stack[i] = SubSeq(rootPath, 1, Len(rootPath) - i + 1)
               /\ CreateInFlight(r) = stack[Len(stack)]
               /\ \A a \in ProperAncestors(CreateInFlight(r)) :
                    /\ znodes[a].exists
                    /\ \A i \in 1..Len(stack) : stack[i] # a)
  /\ [][\A r \in Reqs :
          phase[r] = "roots" /\ phase'[r] = "multi" =>
            CreateInFlight(r) = rootPath]_vars

\* the ancestor creator of a request created the parent of root_path and
\* has the create of root_path in flight
C19_Witness ==
  \E r \in Reqs :
    /\ phase[r] = "roots"
    /\ hist[r].rc = "ZOK"
    /\ paths_to_create[r] = <<rootPath>>
    /\ CreateInFlight(r) = rootPath
    /\ ~znodes[rootPath].exists

\* C20: the stack of the ancestor creator changes only by the pop of the
\* path whose create has just completed with OK or EXISTS; when that create
\* completes with another status the stack is left as it is, no call is
\* issued, the deferred multi-op is neither submitted again nor changed,
\* and the request ends with the mapped status, which is posted unless it
\* is SHUTDOWN while the store is being destroyed.
C20_PopOnlyAfterOwnCompletion ==
  [][\A r \in Reqs :
       /\ paths_to_create[r] # <<>> /\
          paths_to_create'[r] # paths_to_create[r] =>
            /\ phase[r] = "roots"
            /\ CreateInFlight(r) = paths_to_create[r][Len(paths_to_create[r])]
            /\ paths_to_create'[r] =
                 SubSeq(paths_to_create[r], 1, Len(paths_to_create[r]) - 1)
            /\ zkCfStatus(hist'[r].rc) \in {"OK", "EXISTS"}
            /\ znodes'[CreateInFlight(r)].exists
       /\ phase[r] = "roots" /\ call'[r] # call[r] /\
          zkCfStatus(hist'[r].rc) \notin {"OK", "EXISTS"} =>
            /\ paths_to_create'[r] = paths_to_create[r]
            /\ operations_'[r] = operations_[r]
            /\ call'[r] = NoCall
            /\ ~hist'[r].retried
            /\ phase'[r] = "done"
            /\ hist'[r].via = "roots"
            /\ hist'[r].st = zkCfStatus(hist'[r].rc)
            /\ posted'[r] =
                 IF hist'[r].st = "SHUTDOWN" /\ shutting_down THEN <<>>
                 ELSE <<hist'[r].st>>]_vars

\* the parent of root_path was created and popped, the create of root_path
\* failed, and the request ended with the status of the failure
C20_Witness ==
  \E r \in Reqs :
    /\ phase[r] = "done"
    /\ hist[r].via = "roots"
    /\ paths_to_create[r] = <<rootPath>>
    /\ znodes[<<"ld">>].exists
    /\ ~znodes[rootPath].exists
    /\ ~hist[r].retried
    /\ posted[r] = <<hist[r].st>>

\* C21: while a create of the ancestor creator of a request is in flight
\* its CreateRootsState is alive and held by the closure of that call
\* alone; between steps no unique_ptr holds it; it is destroyed at most
\* once, in the step that handles the completion of its last create (the
\* one after which the multi-op is submitted again or the request ends),
\* and every such step destroys it; after that its stack is never touched.
C21_StateOwnedOnceDestroyedOnce ==
  /\ [](\A r \in Reqs :
          /\ phase[r] = "roots" =>
               hist[r].owner = "closure" /\ hist[r].destroyed = 0
          /\ phase[r] # "roots" => hist[r].owner = "none"
          /\ hist[r].destroyed <= 1)
  /\ [][\A r \in Reqs :
          /\ hist'[r].destroyed # hist[r].destroyed <=>
               phase[r] = "roots" /\ phase'[r] # "roots"
          /\ phase[r] = "roots" /\ phase'[r] # "roots" =>
               /\ call'[r] # call[r]
               /\ hist'[r].destroyed = 1
          /\ hist[r].destroyed = 1 =>
               /\ hist'[r].destroyed = 1
               /\ phase'[r] # "roots"
               /\ paths_to_create'[r] = paths_to_create[r]]_vars

\* the state of one request was destroyed when its last create succeeded,
\* the state of another when its first create failed
C21_Witness ==
  \E r, q \in Reqs :
    /\ hist[r].destroyed = 1
    /\ hist[r].retried
    /\ paths_to_create[r] = <<>>
    /\ hist[q].destroyed = 1
    /\ hist[q].via = "roots"
    /\ Len(paths_to_create[q]) = Len(rootPath)

\* C22 as claimed: the status a completion of getData, setData or multiOp
\* gives for ZINVALIDSTATE is NOTCONN when the session is expired, ACCESS
\* when its authentication failed and FAILED otherwise, and the status it
\* gives for ZBADARGUMENTS is INTERNAL.
C22_SessionStateDecides ==
  cf.fn \in CompletionFunctions /\ cf.st # NoStatus =>
    /\ cf.rc = "ZINVALIDSTATE" =>
         cf.st = IF cf.zstate = "ZOO_EXPIRED_SESSION_STATE" THEN "NOTCONN"
                 ELSE IF cf.zstate = "ZOO_AUTH_FAILED_STATE" THEN "ACCESS"
                 ELSE "FAILED"
    /\ cf.rc = "ZBADARGUMENTS" => cf.st = "INTERNAL"

\* the next step the request r took from the value it read
NextStepOf(r) == onGotZnodeValue(kind[r], param[r], hist[r].value).next

\* composeZnodeValue() of request r reported a size that is negative or
\* does not fit in the buffer
BadSize(r) ==
  /\ hist[r].composed
  /\ (hist[r].size < 0 \/ hist[r].size >= ZNODE_VALUE_WRITE_LEN_MAX)

\* C23: a request whose composeZnodeValue() reported a size that is
\* negative or not below the capacity of the buffer, after MODIFY or after
\* PROVISION, is over with INTERNAL, which is posted; it issued no call
\* after its read, wrote nothing and built no multi-op, and the step that
\* composed the value left the znodes as they were.
C23_BadSizeIsInternal ==
  /\ [](\A r \in Reqs :
          BadSize(r) =>
            /\ phase[r] = "done"
            /\ hist[r].st = "INTERNAL"
            /\ hist[r].via = "get"
            /\ posted[r] = <<"INTERNAL">>
            /\ call[r] = NoCall
            /\ hist[r].overwrote = <<>>
            /\ operations_[r] = <<>>
            /\ paths_to_create[r] = <<>>)
  /\ [][\A r \in Reqs :
          ~BadSize(r) /\ BadSize(r)' => znodes' = znodes]_vars

\* a request provisioned the log; another read its znode, was to modify it
\* and composed a size that fills the buffer
C23_Witness ==
  \E r, q \in Reqs :
    /\ BadSize(r)
    /\ NextStepOf(r) = MODIFY
    /\ hist[r].size = ZNODE_VALUE_WRITE_LEN_MAX
    /\ phase[q] = "done"
    /\ hist[q].via = "multi"
    /\ hist[q].st = "OK"

\* a request that was to provision the log composed a negative size
C23_WitnessProvision ==
  \E r \in Reqs :
    /\ BadSize(r)
    /\ NextStepOf(r) = PROVISION
    /\ hist[r].size < 0
    /\ ~znodes[znodePathForLog].exists

\* C24: the stored client changes only in a step that puts in its place a
\* client the factory has just made for the quorum of a configuration
\* that is present and differs from the quorum of the client so far; that
\* step changes nothing else, and no other step touches the clients.
C24_ClientReplacedOnlyOnNewQuorum ==
  [][zkclient' # zkclient \/ clients' # clients =>
       /\ Len(clients') = Len(clients) + 1
       /\ SubSeq(clients', 1, Len(clients)) = clients
       /\ zkclient' = Len(clients')
       /\ clients'[zkclient'] \in Quorums
       /\ clients'[zkclient'] # clients[zkclient]
       /\ UNCHANGED <<znodes, shutting_down, create_root_znodes, reqVars,
                      callerVars>>]_vars

\* the quorum changed while a request had its read in flight on the first
\* client: the store holds the second client
C24_Witness ==
  /\ Len(clients) = 2
  /\ zkclient = 2
  /\ clients[2] # clients[1]
  /\ \E r \in Reqs : phase[r] = "get" /\ call[r].client = 1

\* spec 4.6: the stall series has a window with samples whose average
\* reaches max_stalls_avg and sleep_period
CriticallyStalledWorker(t) ==
  \E p \in Periods :
    /\ PeriodCount(t, p) > 0
    /\ PeriodSum(t, p) \div PeriodCount(t, p) >= MaxStallsAvg
    /\ PeriodSum(t, p) \div PeriodCount(t, p) >= SleepPeriod

\* C25 as claimed: after every tick critically_stalled is the number of
\* workers whose stall series has some window with samples whose average
\* reaches max_stalls_avg and sleep_period, whatever the other windows of
\* the worker hold.
C25_CriticalInAnyWindow ==
  [][Ticked =>
       stall_info_'.critically_stalled_ =
         Cardinality({w \in Workers :
           CriticallyStalledWorker(internal_info'.worker_stalls_[w])})]_vars

\* the five conditions of calculateNegativeSignal() on the state a tick
\* has evaluated
AnyNegativeCondition ==
  \/ internal_info.health_monitor_delay_
  \/ internal_info.watchdog_delay_
  \/ internal_info.total_stalled_workers > 0
  \/ stall_info_.stalled_
  \/ stall_info_.critically_stalled_ > 0

\* C26 as claimed: a tick that finds critically_stalled = 1 applies the
\* negative feedback twice, whether or not the node is stalled, the
\* watchdog or the loop is delayed or workers are reported stalled; a
\* tick that finds none of the five conditions applies none.
C26_CriticalStallPenalisedTwice ==
  [][Ticked =>
       /\ stall_info_'.critically_stalled_ = 1 =>
            last_tick'.negative_feedbacks = 2
       /\ ~AnyNegativeCondition' =>
            last_tick'.negative_feedbacks = 0]_vars

\* C26 (corrected): a tick applies the negative feedback once when the loop
\* or the watchdog is delayed, workers are reported stalled or the node is
\* stalled, and once more when a worker is critically stalled: a critical
\* stall alone is penalised once, both together twice, none of the five
\* not at all.
C26_FeedbackPerTest ==
  [][Ticked =>
       last_tick'.negative_feedbacks =
         (IF \/ internal_info'.health_monitor_delay_
             \/ internal_info'.watchdog_delay_
             \/ internal_info'.total_stalled_workers > 0
             \/ stall_info_'.stalled_
          THEN 1 ELSE 0) +
         (IF stall_info_'.critically_stalled_ > 0 THEN 1 ELSE 0)]_vars

\* a tick has just found one critically stalled worker and nothing else,
\* and has applied the negative feedback once
C26_Witness ==
  /\ sleeping
  /\ last_entry_time = 0
  /\ stall_info_.critically_stalled_ = 1
  /\ ~stall_info_.stalled_
  /\ ~internal_info.health_monitor_delay_
  /\ ~internal_info.watchdog_delay_
  /\ internal_info.total_stalled_workers = 0
  /\ last_tick.negative_feedbacks = 1
  /\ node_state = UNHEALTHY

\* the lambda of isOverloaded() on the series t comes to a window whose sum
\* reaches max_queue_stall_duration and whose sample count is 0
DividesByZero(t) ==
  QueueOverloaded(t, 2, max_queue_stall_duration) = "undefined"

\* C27 as claimed: no wake that evaluates the reports computes sum / count
\* for a window of a worker's queue stalls whose sample count is 0.
C27_AverageOnlyOfSamples ==
  [][(Woke /\ ~shutdown_) =>
       \A w \in Workers :
         ~DividesByZero(internal_info.worker_queue_stalls_[w])]_vars

\* the tick continuations that are pending: the sleep that has not ended
\* and the continuations of monitorLoop() that wait on the executor
IsMonitorLoop(c) == c.fn = "monitorLoop"

PendingTicks ==
  (IF sleeping THEN 1 ELSE 0) + Len(SelectSeq(executor, IsMonitorLoop))

\* C28 as claimed: a started monitor has at most one pending tick
\* continuation; every wake either schedules exactly one next tick, when
\* it does not observe shutdown, or fulfils the shutdown promise and
\* schedules none; the promise is fulfilled at most once and no wake
\* processes reports once it is fulfilled.
C28_OnePendingTick ==
  /\ [](is_started => PendingTicks <= 1)
  /\ [][Woke =>
          IF shutdown_
          THEN /\ shutdown_promise' = shutdown_promise + 1
               /\ PendingTicks' = 0
          ELSE /\ shutdown_promise' = shutdown_promise
               /\ PendingTicks' = 1]_vars
  /\ [](shutdown_promise <= 1)
  /\ [][shutdown_promise >= 1 => ~Woke]_vars

====
